---- MODULE Spec2Model ----
(***************************************************************************)
(* Optimistic scheduling engine of agenda-assist:                          *)
(*   - drag selection            (hooks/useDragAndDrop.ts)                 *)
(*   - pending change overlay    (contexts/CalendarContext.tsx)            *)
(*   - debounced batch save      (hooks/useDebouncedSave.ts)               *)
(*   - reservation store adapter (hooks/useSessionManager.ts)              *)
(* Hours are counted in half-hour slots (startHour = 2 * hour), so the     *)
(* loop step "h += 0.5" is a step of one slot.  Timers are in ms.          *)
(***************************************************************************)
EXTENDS Integers, Sequences, FiniteSets, TLC

\* ---------------------------------------------------------------- bounds
MaxDay == 0
MaxSlot == 1
MaxCreate == 2
MaxDelete == 1
MaxQueued == 1
MaxQueuedDeletes == 2
MaxStore == 2
MaxProcs == 2
MaxLoads == 1
MaxNotifs == 1
MaxOps == 5
MaxRectDay == 1
MaxRectSlot == 2
MaxRectCreate == 6
MaxRectDelete == 2
MaxRectQueued == 1
MaxClickLoad == 1
MaxViewLoads == 3

\* ------------------------------------------------------ program constants
SESSION_DURATION == 3
debounceDelay == 5000
savedIndicatorDuration == 3000
MinNameLength == 3
IntervalMs == 1000

Days == 0..MaxDay
Slots == 0..MaxSlot
RectDays == 0..MaxRectDay
RectSlots == 0..MaxRectSlot

\* Names are sequences of characters so that trim() can be computed.
Ann == <<"A", "n", "n">>
Bob == <<"B", "o", "b">>
PaddedAl == <<" ", "A", "l">>
Names == {Ann, Bob, PaddedAl}

NoCell == <<>>
NoTimer == 0
NoCountdown == -1
NoFilter == <<>>

VARIABLES
  store,                \* rows of the remote sessions table
  notifs,               \* change notifications not yet delivered
  sessions,             \* useSessionManager: canonical list
  isSavingRef,          \* useSessionManager: isSavingRef.current
  loads,                \* loadSessions calls in flight (their filters)
  playerName, viewMode,
  isDragging, dragStart, dragEnd,
  pendingChanges,       \* [toCreate, toDelete]
  saveCountdown, isSaving, showSaved,
  saveTimerRef, countdownIntervalRef, savedTimerRef,
  timers,               \* armed timers of the runtime
  procs,                \* performSave invocations in flight
  now,                  \* Date.now()
  sinceSchedule,        \* ms since the scheduleSave() that armed the save
                        \* timer; debounceDelay once that timer is gone
  restartedFrom,        \* saveCountdown as the latest scheduleSave() found
                        \* it; forgotten when the schedule is cancelled
  mounted,
  opsLeft               \* calls the component may still make on the hook

storeVars == <<store, notifs>>
managerVars == <<sessions, isSavingRef, loads>>
identityVars == <<playerName, viewMode>>
dragVars == <<isDragging, dragStart, dragEnd>>
timerVars == <<saveTimerRef, countdownIntervalRef, savedTimerRef, timers>>
historyVars == <<sinceSchedule, restartedFrom>>
saveVars == <<saveCountdown, isSaving, showSaved, timerVars, historyVars>>
vars == <<storeVars, managerVars, identityVars, dragVars, pendingChanges,
          saveVars, procs, now, mounted, opsLeft>>

\* ---------------------------------------------------------------- helpers
\* a minimum that returns its first argument
MinIsFirst(a, b) == a

Min(a, b) == IF a <= b THEN a ELSE b
Max(a, b) == IF a >= b THEN a ELSE b

Range(s) == {s[i] : i \in 1..Len(s)}

Includes(s, x) == \E i \in 1..Len(s) : s[i] = x

\* Array.prototype.find: index of the first element passing the test, 0 if
\* none; passes[i] tells whether element i passes
FindIndex(passes) ==
  IF \E i \in 1..Len(passes) : passes[i]
  THEN CHOOSE i \in 1..Len(passes) : passes[i] /\ \A j \in 1..(i - 1) : ~passes[j]
  ELSE 0

IsSpace(c) == c = " "

RECURSIVE TrimStart(_)
TrimStart(s) ==
  IF s # <<>> /\ IsSpace(Head(s)) THEN TrimStart(Tail(s)) ELSE s

RECURSIVE TrimEnd(_)
TrimEnd(s) ==
  IF s # <<>> /\ IsSpace(s[Len(s)]) THEN TrimEnd(SubSeq(s, 1, Len(s) - 1)) ELSE s

Trim(s) == TrimEnd(TrimStart(s))

\* ids: durable ones are issued by the store, provisional ones are the
\* string `temp-${Date.now()}-${day}-${hour}`
DbId(n) == <<"db", n, 0, 0>>
TempId(stamp, d, h) == <<"temp", stamp, d, h>>
IsTemp(id) == id[1] = "temp"

CalendarEvent(id, d, h, p) ==
  [id |-> id, day |-> d, startHour |-> h, duration |-> SESSION_DURATION,
   player_name |-> p]

EmptyChanges == [toCreate |-> <<>>, toDelete |-> <<>>]

\* Date.now() only matters through equality of the provisional ids built
\* from it: a later reading differs from the stamp of every pending id, and
\* while no pending id carries the current reading nothing tells them apart.
LiveStamps ==
  {e.id[2] : e \in {x \in Range(pendingChanges.toCreate) : IsTemp(x.id)}}
    \cup {id[2] : id \in {x \in Range(pendingChanges.toDelete) : IsTemp(x)}}

LaterNow ==
  IF now \notin LiveStamps THEN now
  ELSE CHOOSE n \in 1..(Cardinality(LiveStamps) + 1) : n \notin LiveStamps

\* ------------------------------------------------------------ the overlay
displayedEventsOf(canonical, changes) ==
  LET kept == SelectSeq(canonical, LAMBDA e : ~Includes(changes.toDelete, e.id))
  IN  kept \o changes.toCreate

displayedEvents == displayedEventsOf(sessions, pendingChanges)

\* ------------------------------------------------------------ the timers
TimerIds(T) == {t.id : t \in T}

FreeId(used) == CHOOSE i \in 1..(Cardinality(used) + 1) : i \notin used

Timer(id, kind, ms, count, filters) ==
  [id |-> id, kind |-> kind, remaining |-> ms, countdown |-> count,
   filters |-> filters]

\* the timeouts of the deferred write among the timers T
SaveTimers(T) == {t \in T : t.kind = "save"}

\* clearTimers() that forgets the timeout of the deferred write
clearTimersKeepsSave(T) ==
  {t \in T : t.id \notin {countdownIntervalRef, savedTimerRef}}

\* the runtime's timer table after clearTimers()
clearTimers(T) ==
  {t \in T : t.id \notin {saveTimerRef, countdownIntervalRef, savedTimerRef}}

countdownSeconds == (debounceDelay + 999) \div 1000

\* filters of the context's load effect and of its post-save reload
ActiveFilter ==
  IF viewMode = "personal" /\ playerName # <<>> THEN <<playerName>> ELSE NoFilter

\* scheduleSave() that lets a running timeout of the deferred write run on
ScheduleSaveKeepsTimer ==
  LET running == {t \in timers : t.id = saveTimerRef /\ t.kind = "save"}
      T0 == clearTimers(timers)
      iv == FreeId(TimerIds(T0) \cup TimerIds(running))
      sv == FreeId(TimerIds(T0) \cup TimerIds(running) \cup {iv})
  IN  /\ showSaved' = FALSE
      /\ saveCountdown' = countdownSeconds
      /\ timers' = T0 \cup
            {Timer(iv, "countdown", IntervalMs, countdownSeconds, NoFilter)} \cup
            (IF running # {} THEN running
             ELSE {Timer(sv, "save", debounceDelay, 0, ActiveFilter)})
      /\ countdownIntervalRef' = iv
      /\ saveTimerRef' = IF running # {} THEN saveTimerRef ELSE sv
      /\ savedTimerRef' = NoTimer
      /\ sinceSchedule' = 0
      /\ restartedFrom' = saveCountdown
      /\ UNCHANGED isSaving

\* scheduleSave(): what it does to the scheduler
ScheduleSaveEffect ==
  LET T0 == clearTimers(timers)
      iv == FreeId(TimerIds(T0))
      sv == FreeId(TimerIds(T0) \cup {iv})
  IN  /\ showSaved' = FALSE
      /\ saveCountdown' = countdownSeconds
      /\ timers' = T0 \cup
            {Timer(iv, "countdown", IntervalMs, countdownSeconds, NoFilter),
             Timer(sv, "save", debounceDelay, 0, ActiveFilter)}
      /\ countdownIntervalRef' = iv
      /\ saveTimerRef' = sv
      /\ savedTimerRef' = NoTimer
      /\ sinceSchedule' = 0
      /\ restartedFrom' = saveCountdown
      /\ UNCHANGED isSaving

\* ----------------------------------------------------------- the gestures
\* the name check on the raw field, surrounding blanks counted
ValidPlayerUntrimmed == Len(playerName) >= MinNameLength

ValidPlayer == Len(Trim(playerName)) >= MinNameLength

handleMouseDown(day, hour) ==
  /\ mounted
  /\ IF ~ValidPlayer
     THEN UNCHANGED dragVars
     ELSE /\ isDragging' = TRUE
          /\ dragStart' = <<day, hour>>
          /\ dragEnd' = <<day, hour>>
  /\ UNCHANGED <<storeVars, managerVars, identityVars, pendingChanges,
                 saveVars, procs, now, mounted, opsLeft>>

\* handleMouseEnter() without its isDragging guard
handleMouseEnterUnguarded(day, hour) ==
  /\ mounted
  /\ dragEnd' = <<day, hour>>
  /\ UNCHANGED <<storeVars, managerVars, identityVars, isDragging, dragStart,
                 pendingChanges, saveVars, procs, now, mounted, opsLeft>>

handleMouseEnter(day, hour) ==
  /\ mounted
  /\ IF isDragging /\ dragStart # NoCell
     THEN dragEnd' = <<day, hour>>
     ELSE UNCHANGED dragEnd
  /\ UNCHANGED <<storeVars, managerVars, identityVars, isDragging, dragStart,
                 pendingChanges, saveVars, procs, now, mounted, opsLeft>>

\* the starting-cell test without the owner comparison
AtStartAnyOwner(e) ==
  /\ e.day = dragStart[1]
  /\ e.startHour = dragStart[2]

AtStart(e) ==
  /\ e.day = dragStart[1]
  /\ e.startHour = dragStart[2]
  /\ e.player_name = playerName

\* the drag-create loops with the last half hour left out (h < endHour)
RECURSIVE NewEventsHalfOpen(_, _, _, _, _)
NewEventsHalfOpen(d, h, startHour, endDay, endHour) ==
  IF d > endDay THEN <<>>
  ELSE IF h >= endHour
       THEN NewEventsHalfOpen(d + 1, startHour, startHour, endDay, endHour)
  ELSE <<CalendarEvent(TempId(now, d, h), d, h, playerName)>>
         \o NewEventsHalfOpen(d, h + 1, startHour, endDay, endHour)

\* the drag-create loops: days outermost, hours innermost
RECURSIVE NewEvents(_, _, _, _, _)
NewEvents(d, h, startHour, endDay, endHour) ==
  IF d > endDay THEN <<>>
  ELSE IF h > endHour THEN NewEvents(d + 1, startHour, startHour, endDay, endHour)
  ELSE <<CalendarEvent(TempId(now, d, h), d, h, playerName)>>
         \o NewEvents(d, h + 1, startHour, endDay, endHour)

InRect(e, startDay, endDay, startHour, endHour) ==
  /\ e.day >= startDay /\ e.day <= endDay
  /\ e.startHour >= startHour /\ e.startHour <= endHour

\* the cells of the rectangle handleMouseUp() resolves from anchor p and
\* cursor q: the (day, startHour) pairs its loops visit
RectCells(p, q) ==
  LET startDay == Min(p[1], q[1])
      endDay == Max(p[1], q[1])
      startHour == Min(p[2], q[2])
      endHour == Max(p[2], q[2])
  IN  {<<e.day, e.startHour>> :
         e \in Range(NewEvents(startDay, startHour, startHour, endDay, endHour))}

\* the pending changes handleMouseUp() leaves behind
ReleasedChanges ==
  LET events == displayedEvents
      prev == pendingChanges
      starting == FindIndex([i \in 1..Len(events) |-> AtStart(events[i])])
      startDay == Min(dragStart[1], dragEnd[1])
      endDay == Max(dragStart[1], dragEnd[1])
      startHour == Min(dragStart[2], dragEnd[2])
      endHour == Max(dragStart[2], dragEnd[2])
      eventsToDelete ==
        SelectSeq(events, LAMBDA e :
          InRect(e, startDay, endDay, startHour, endHour)
            /\ e.player_name = playerName)
      deletedIds == [i \in 1..Len(eventsToDelete) |-> eventsToDelete[i].id]
  IN  IF dragStart[1] = dragEnd[1] /\ dragStart[2] = dragEnd[2]
      THEN IF starting # 0
           THEN [toDelete |-> Append(prev.toDelete, events[starting].id),
                 toCreate |-> SelectSeq(prev.toCreate,
                                LAMBDA e : e.id # events[starting].id)]
           ELSE [prev EXCEPT !.toCreate =
                   Append(@, CalendarEvent(TempId(now, dragStart[1], dragStart[2]),
                                           dragStart[1], dragStart[2], playerName))]
      ELSE IF starting # 0
           THEN [toDelete |-> prev.toDelete \o deletedIds,
                 toCreate |-> SelectSeq(prev.toCreate,
                                LAMBDA e : ~Includes(deletedIds, e.id))]
           ELSE [prev EXCEPT !.toCreate =
                   @ \o NewEvents(startDay, startHour, startHour, endDay, endHour)]

\* handleMouseUp() that queues the edits and leaves the scheduler alone
handleMouseUpUnscheduled(maxCreate, maxDelete) ==
  /\ mounted
  /\ IF isDragging /\ dragStart # NoCell /\ dragEnd # NoCell
     THEN /\ Len(ReleasedChanges.toCreate) <= maxCreate
          /\ Len(ReleasedChanges.toDelete) <= maxDelete
          /\ pendingChanges' = ReleasedChanges
          /\ UNCHANGED saveVars
     ELSE UNCHANGED <<pendingChanges, saveVars>>
  /\ isDragging' = FALSE
  /\ dragStart' = NoCell
  /\ dragEnd' = NoCell
  /\ UNCHANGED <<storeVars, managerVars, identityVars, procs, now, mounted, opsLeft>>

\* handleMouseUp() while the two lists stay within the given lengths
handleMouseUpWithin(maxCreate, maxDelete) ==
  /\ mounted
  /\ IF isDragging /\ dragStart # NoCell /\ dragEnd # NoCell
     THEN /\ Len(ReleasedChanges.toCreate) <= maxCreate
          /\ Len(ReleasedChanges.toDelete) <= maxDelete
          /\ pendingChanges' = ReleasedChanges
          /\ ScheduleSaveEffect
     ELSE UNCHANGED <<pendingChanges, saveVars>>
  /\ isDragging' = FALSE
  /\ dragStart' = NoCell
  /\ dragEnd' = NoCell
  /\ UNCHANGED <<storeVars, managerVars, identityVars, procs, now, mounted, opsLeft>>

handleMouseUp == handleMouseUpWithin(MaxCreate, MaxDelete)

\* the calendar root's onMouseLeave is bound to the release handler
handleMouseLeave == handleMouseUp

\* ------------------------------------------------------------- the store
Row(id, p, d, h, dur) ==
  [id |-> id, player_name |-> p, day |-> d, start_hour |-> h, duration |-> dur]

\* "Convert database sessions to calendar events"
ToEvent(row) ==
  [id |-> row.id, day |-> row.day, startHour |-> row.start_hour,
   duration |-> row.duration, player_name |-> row.player_name]

\* sessionsToInsert: the store assigns the id
ToRow(event, id) ==
  Row(id, event.player_name, event.day, event.startHour, event.duration)

RECURSIVE RowsInOrder(_)
RowsInOrder(S) ==
  IF S = {} THEN <<>>
  ELSE LET first == CHOOSE r \in S : \A q \in S : r.id[2] <= q.id[2]
       IN  <<first>> \o RowsInOrder(S \ {first})

\* select('*') with the optional eq('player_name', ...)
Select(filters) ==
  LET rows == IF filters = NoFilter THEN store
              ELSE {r \in store : r.player_name = filters[1]}
      inOrder == RowsInOrder(rows)
  IN  [i \in 1..Len(inOrder) |-> ToEvent(inOrder[i])]

\* durable ids some part of the state still refers to
UsedDbNums ==
  {r.id[2] : r \in store}
    \cup {e.id[2] : e \in {x \in Range(sessions) : ~IsTemp(x.id)}}
    \cup {id[2] : id \in {x \in Range(pendingChanges.toDelete) : ~IsTemp(x)}}
    \cup UNION {{id[2] : id \in {x \in Range(procs[k].snap.toDelete) : ~IsTemp(x)}}
                 : k \in 1..Len(procs)}

RECURSIVE FreshNums(_, _)
FreshNums(used, n) ==
  IF n = 0 THEN <<>>
  ELSE LET f == FreeId(used) IN <<f>> \o FreshNums(used \cup {f}, n - 1)

Notified(changed) == IF changed THEN Min(notifs + 1, MaxNotifs) ELSE notifs

RemoveAt(s, i) == SubSeq(s, 1, i - 1) \o SubSeq(s, i + 1, Len(s))

\* ---------------------------------------------------------- the scheduler
\* a ref whose sync effect misses the deletions
pendingChangesRefStale == [pendingChanges EXCEPT !.toDelete = <<>>]

\* the ref mirrors the state after every render
pendingChangesRef == pendingChanges

NoChanges(c) == Len(c.toCreate) = 0 /\ Len(c.toDelete) = 0

\* onSave() that goes straight to the batched insert
StartedSaveInsertFirst(cur, filters) ==
  [snap |-> cur, filters |-> filters,
   pc |-> IF Len(cur.toCreate) > 0 THEN "insert" ELSE "delete",
   i |-> IF Len(cur.toCreate) > 0 THEN 0 ELSE 1]

\* onSave(currentPendingChanges) up to its first network call
StartedSave(cur, filters) ==
  [snap |-> cur, filters |-> filters,
   pc |-> IF Len(cur.toDelete) > 0 THEN "delete" ELSE "insert",
   i |-> IF Len(cur.toDelete) > 0 THEN 1 ELSE 0]

\* performSave() called with the timer table T; `cleared` tells whether the
\* caller has run clearTimers() before
PerformSaveEffect(T, cleared, filters) ==
  LET cur == pendingChangesRef
  IN  IF NoChanges(cur)
      THEN /\ timers' = T
           /\ IF cleared
              THEN /\ saveTimerRef' = NoTimer
                   /\ countdownIntervalRef' = NoTimer
                   /\ savedTimerRef' = NoTimer
              ELSE UNCHANGED <<saveTimerRef, countdownIntervalRef, savedTimerRef>>
           /\ UNCHANGED <<saveCountdown, isSaving, procs, isSavingRef>>
      ELSE /\ Len(procs) < MaxProcs
           /\ saveCountdown' = NoCountdown
           /\ isSaving' = TRUE
           /\ timers' = clearTimers(T)
           /\ saveTimerRef' = NoTimer
           /\ countdownIntervalRef' = NoTimer
           /\ savedTimerRef' = NoTimer
           /\ procs' = Append(procs, StartedSave(cur, filters))
           /\ isSavingRef' = TRUE

\* the component spends one of the calls it may make on the hook
CallMade == opsLeft > 0 /\ opsLeft' = opsLeft - 1

\* setPendingChanges(next), the setter the hook hands out
setPendingChanges(next) ==
  /\ mounted
  /\ CallMade
  /\ pendingChanges' = next
  /\ UNCHANGED <<storeVars, managerVars, identityVars, dragVars, saveVars,
                 procs, now, mounted>>

\* the updates of the documented usage: one more entry to create, or one
\* more canonical id to delete
QueuedEdits ==
  {[pendingChanges EXCEPT !.toCreate =
      Append(@, CalendarEvent(TempId(now, d, h), d, h, Ann))] :
        d \in Days, h \in {0}}
    \cup {[pendingChanges EXCEPT !.toDelete = Append(@, e.id)] :
            e \in {x \in Range(sessions) :
                     ~Includes(pendingChanges.toDelete, x.id)}}

scheduleSave ==
  /\ mounted
  /\ CallMade
  /\ ScheduleSaveEffect
  /\ UNCHANGED <<storeVars, managerVars, identityVars, dragVars, pendingChanges,
                 procs, now, mounted>>

saveNow ==
  /\ mounted
  /\ CallMade
  /\ PerformSaveEffect(clearTimers(timers), TRUE, ActiveFilter)
  /\ sinceSchedule' = debounceDelay
  /\ restartedFrom' = NoCountdown
  /\ UNCHANGED <<storeVars, sessions, loads, identityVars, dragVars,
                 pendingChanges, showSaved, now, mounted>>

clearPendingChanges ==
  /\ mounted
  /\ CallMade
  /\ timers' = clearTimers(timers)
  /\ saveTimerRef' = NoTimer
  /\ countdownIntervalRef' = NoTimer
  /\ savedTimerRef' = NoTimer
  /\ pendingChanges' = EmptyChanges
  /\ saveCountdown' = NoCountdown
  /\ sinceSchedule' = debounceDelay
  /\ restartedFrom' = NoCountdown
  /\ UNCHANGED <<storeVars, managerVars, identityVars, dragVars, isSaving,
                 showSaved, procs, now, mounted>>

unmount ==
  /\ mounted
  /\ mounted' = FALSE
  /\ timers' = clearTimers(timers)
  /\ saveTimerRef' = NoTimer
  /\ countdownIntervalRef' = NoTimer
  /\ savedTimerRef' = NoTimer
  /\ sinceSchedule' = debounceDelay
  /\ restartedFrom' = NoCountdown
  /\ UNCHANGED <<storeVars, managerVars, identityVars, dragVars, pendingChanges,
                 saveCountdown, isSaving, showSaved, procs, now, opsLeft>>

\* ------------------------------------------------------------- the timers
Due(kind) == {t \in timers : t.kind = kind /\ t.remaining = 0}

saveTimerFires ==
  \E t \in Due("save") :
    /\ PerformSaveEffect(timers \ {t}, FALSE, t.filters)
    /\ UNCHANGED <<storeVars, sessions, loads, identityVars, dragVars,
                   pendingChanges, showSaved, historyVars, now, mounted, opsLeft>>

\* countdownTick with the indicator taken away when the count reaches 0
countdownTickHidesAtZero ==
  \E t \in Due("countdown") :
    LET countdown == t.countdown - 1
        again == [t EXCEPT !.remaining = IntervalMs, !.countdown = countdown]
    IN  /\ IF countdown <= 0
           THEN /\ saveCountdown' = NoCountdown
                /\ timers' = {x \in (timers \ {t}) \cup {again} :
                                x.id # countdownIntervalRef}
                /\ countdownIntervalRef' = NoTimer
           ELSE /\ saveCountdown' = countdown
                /\ timers' = (timers \ {t}) \cup {again}
                /\ UNCHANGED countdownIntervalRef
        /\ UNCHANGED <<storeVars, managerVars, identityVars, dragVars,
                       pendingChanges, isSaving, showSaved, saveTimerRef,
                       savedTimerRef, historyVars, procs, now, mounted, opsLeft>>

countdownTick ==
  \E t \in Due("countdown") :
    LET countdown == t.countdown - 1
        again == [t EXCEPT !.remaining = IntervalMs, !.countdown = countdown]
    IN  /\ IF countdown <= 0
           THEN /\ saveCountdown' = 0
                /\ timers' = {x \in (timers \ {t}) \cup {again} :
                                x.id # countdownIntervalRef}
                /\ countdownIntervalRef' = NoTimer
           ELSE /\ saveCountdown' = countdown
                /\ timers' = (timers \ {t}) \cup {again}
                /\ UNCHANGED countdownIntervalRef
        /\ UNCHANGED <<storeVars, managerVars, identityVars, dragVars,
                       pendingChanges, isSaving, showSaved, saveTimerRef,
                       savedTimerRef, historyVars, procs, now, mounted, opsLeft>>

savedTimerFires ==
  \E t \in Due("saved") :
    /\ timers' = timers \ {t}
    /\ showSaved' = FALSE
    /\ UNCHANGED <<storeVars, managerVars, identityVars, dragVars,
                   pendingChanges, saveCountdown, isSaving, saveTimerRef,
                   countdownIntervalRef, savedTimerRef, historyVars, procs,
                   now, mounted, opsLeft>>

\* one second passes; a timer that is due runs first
Tick ==
  /\ \A t \in timers : t.remaining >= IntervalMs
  /\ timers' = {[t EXCEPT !.remaining = @ - IntervalMs] : t \in timers}
  /\ sinceSchedule' = Min(sinceSchedule + IntervalMs, debounceDelay)
  /\ now' = LaterNow
  /\ UNCHANGED <<storeVars, managerVars, identityVars, dragVars, pendingChanges,
                 saveCountdown, isSaving, showSaved, saveTimerRef,
                 countdownIntervalRef, savedTimerRef, restartedFrom, procs,
                 mounted, opsLeft>>

\* Date.now() moves on between two handlers
clockAdvances ==
  /\ now' = LaterNow
  /\ UNCHANGED <<storeVars, managerVars, identityVars, dragVars, pendingChanges,
                 saveVars, procs, mounted, opsLeft>>

\* -------------------------------------------- the persistence procedure
\* deleteSessions() that gives up the procedure at the first refused delete
deleteResponseStopsOnError(p, ok) ==
  LET pr == procs[p]
      ids == pr.snap.toDelete
      hit == {r \in store : r.id = ids[pr.i]}
  IN  /\ pr.pc = "delete"
      /\ store' = IF ok THEN store \ hit ELSE store
      /\ notifs' = Notified(ok /\ hit # {})
      /\ IF ~ok
         THEN /\ procs' = RemoveAt(procs, p)
              /\ isSavingRef' = FALSE
              /\ isSaving' = FALSE
              /\ UNCHANGED <<sessions, pendingChanges>>
         ELSE /\ UNCHANGED isSaving
              /\ IF pr.i < Len(ids)
                 THEN /\ procs' = [procs EXCEPT ![p].i = @ + 1]
                      /\ UNCHANGED <<sessions, isSavingRef, pendingChanges>>
                 ELSE /\ sessions' =
                           SelectSeq(sessions, LAMBDA e : ~Includes(ids, e.id))
                      /\ IF Len(pr.snap.toCreate) > 0
                         THEN /\ isSavingRef' = TRUE
                              /\ procs' = [procs EXCEPT ![p].pc = "insert"]
                              /\ UNCHANGED pendingChanges
                         ELSE /\ isSavingRef' = FALSE
                              /\ pendingChanges' = EmptyChanges
                              /\ procs' = [procs EXCEPT ![p].pc = "reload"]
      /\ UNCHANGED <<loads, identityVars, dragVars, saveCountdown, showSaved,
                     timerVars, historyVars, now, mounted, opsLeft>>

\* a delete request of deleteSessions() is answered
deleteResponse(p, ok) ==
  LET pr == procs[p]
      ids == pr.snap.toDelete
      hit == {r \in store : r.id = ids[pr.i]}
  IN  /\ pr.pc = "delete"
      /\ store' = IF ok THEN store \ hit ELSE store
      /\ notifs' = Notified(ok /\ hit # {})
      /\ IF pr.i < Len(ids)
         THEN /\ procs' = [procs EXCEPT ![p].i = @ + 1]
              /\ UNCHANGED <<sessions, isSavingRef, pendingChanges>>
         ELSE /\ sessions' = SelectSeq(sessions, LAMBDA e : ~Includes(ids, e.id))
              /\ IF Len(pr.snap.toCreate) > 0
                 THEN /\ isSavingRef' = TRUE
                      /\ procs' = [procs EXCEPT ![p].pc = "insert"]
                      /\ UNCHANGED pendingChanges
                 ELSE /\ isSavingRef' = FALSE
                      /\ pendingChanges' = EmptyChanges
                      /\ procs' = [procs EXCEPT ![p].pc = "reload"]
      /\ UNCHANGED <<loads, identityVars, dragVars, saveVars, now, mounted, opsLeft>>

\* createSessions() whose failure path discards the pending changes
insertResponseDropsEdits(p, ok) ==
  LET pr == procs[p]
      batch == pr.snap.toCreate
      nums == FreshNums(UsedDbNums, Len(batch))
      rows == [k \in 1..Len(batch) |-> ToRow(batch[k], DbId(nums[k]))]
  IN  /\ pr.pc = "insert"
      /\ IF ok
         THEN /\ Cardinality(store) + Len(batch) <= MaxStore
              /\ store' = store \cup Range(rows)
              /\ notifs' = Notified(TRUE)
              /\ sessions' = sessions \o [k \in 1..Len(rows) |-> ToEvent(rows[k])]
              /\ isSavingRef' = FALSE
              /\ procs' = [procs EXCEPT ![p].pc = "reload"]
              /\ UNCHANGED isSaving
         ELSE /\ isSavingRef' = FALSE
              /\ isSaving' = FALSE
              /\ procs' = RemoveAt(procs, p)
              /\ UNCHANGED <<storeVars, sessions>>
      /\ pendingChanges' = EmptyChanges
      /\ UNCHANGED <<loads, identityVars, dragVars, saveCountdown, showSaved,
                     timerVars, historyVars, now, mounted, opsLeft>>

\* the batched insert of createSessions() is answered
insertResponse(p, ok) ==
  LET pr == procs[p]
      batch == pr.snap.toCreate
      nums == FreshNums(UsedDbNums, Len(batch))
      rows == [k \in 1..Len(batch) |-> ToRow(batch[k], DbId(nums[k]))]
  IN  /\ pr.pc = "insert"
      /\ IF ok
         THEN /\ Cardinality(store) + Len(batch) <= MaxStore
              /\ store' = store \cup Range(rows)
              /\ notifs' = Notified(TRUE)
              /\ sessions' = sessions \o [k \in 1..Len(rows) |-> ToEvent(rows[k])]
              /\ isSavingRef' = FALSE
              /\ pendingChanges' = EmptyChanges
              /\ procs' = [procs EXCEPT ![p].pc = "reload"]
              /\ UNCHANGED isSaving
         ELSE /\ isSavingRef' = FALSE
              /\ isSaving' = FALSE
              /\ procs' = RemoveAt(procs, p)
              /\ UNCHANGED <<storeVars, sessions, pendingChanges>>
      /\ UNCHANGED <<loads, identityVars, dragVars, saveCountdown, showSaved,
                     timerVars, historyVars, now, mounted, opsLeft>>

\* the reload that ends onSave() is answered, performSave() finishes
reloadResponse(p, ok) ==
  LET pr == procs[p]
      id == FreeId(TimerIds(timers)
                     \cup {saveTimerRef, countdownIntervalRef, savedTimerRef})
  IN  /\ pr.pc = "reload"
      /\ sessions' = IF ok THEN Select(pr.filters) ELSE sessions
      /\ pendingChanges' = EmptyChanges
      /\ showSaved' = TRUE
      /\ timers' = timers \cup
            {Timer(id, "saved", savedIndicatorDuration, 0, NoFilter)}
      /\ savedTimerRef' = id
      /\ isSaving' = FALSE
      /\ procs' = RemoveAt(procs, p)
      /\ UNCHANGED <<storeVars, isSavingRef, loads, identityVars, dragVars,
                     saveCountdown, saveTimerRef, countdownIntervalRef,
                     historyVars, now, mounted, opsLeft>>

\* ------------------------------------------------- loads and notifications
\* the context's load effect runs when viewMode or playerName changed
LoadEffectWithin(maxLoads) ==
  IF <<viewMode', playerName'>> # <<viewMode, playerName>>
  THEN /\ Len(loads) < maxLoads
       /\ loads' = Append(loads,
            IF viewMode' = "personal" /\ playerName' # <<>>
            THEN <<playerName'>> ELSE NoFilter)
  ELSE UNCHANGED loads

LoadEffect == LoadEffectWithin(MaxLoads)

\* the name is picked in the player dialog or typed into the name field:
\* Date.now() has moved on by the time it is set
setCurrentUser(name) ==
  /\ mounted
  /\ playerName' = name
  /\ UNCHANGED viewMode
  /\ LoadEffect
  /\ now' = LaterNow
  /\ UNCHANGED <<storeVars, sessions, isSavingRef, dragVars, pendingChanges,
                 saveVars, procs, mounted, opsLeft>>

setViewModeWithin(mode, maxLoads) ==
  /\ mounted
  /\ viewMode' = mode
  /\ UNCHANGED playerName
  /\ LoadEffectWithin(maxLoads)
  /\ UNCHANGED <<storeVars, sessions, isSavingRef, dragVars, pendingChanges,
                 saveVars, procs, now, mounted, opsLeft>>

setViewMode(mode) == setViewModeWithin(mode, MaxLoads)

\* the postgres_changes callback of useSessionManager
realtimeCallback ==
  /\ mounted
  /\ notifs > 0
  /\ notifs' = notifs - 1
  /\ IF ~isSavingRef
     THEN /\ Len(loads) < MaxLoads
          /\ loads' = Append(loads, NoFilter)
     ELSE UNCHANGED loads
  /\ UNCHANGED <<store, sessions, isSavingRef, identityVars, dragVars,
                 pendingChanges, saveVars, procs, now, mounted, opsLeft>>

loadResponse(i, ok) ==
  /\ i \in 1..Len(loads)
  /\ sessions' = IF ok THEN Select(loads[i]) ELSE sessions
  /\ loads' = RemoveAt(loads, i)
  /\ UNCHANGED <<storeVars, isSavingRef, identityVars, dragVars, pendingChanges,
                 saveVars, procs, now, mounted, opsLeft>>

\* another client writes to the sessions table
externalInsert(d, h, p) ==
  /\ Cardinality(store) < MaxStore
  /\ store' = store \cup
        {Row(DbId(FreeId(UsedDbNums)), p, d, h, SESSION_DURATION)}
  /\ notifs' = Notified(TRUE)
  /\ UNCHANGED <<managerVars, identityVars, dragVars, pendingChanges, saveVars,
                 procs, now, mounted, opsLeft>>

externalDelete(r) ==
  /\ r \in store
  /\ store' = store \ {r}
  /\ notifs' = Notified(TRUE)
  /\ UNCHANGED <<managerVars, identityVars, dragVars, pendingChanges, saveVars,
                 procs, now, mounted, opsLeft>>

\* ------------------------------------------------------- specifications
InitialStores ==
  SUBSET {Row(DbId(1), Ann, 0, 0, SESSION_DURATION),
          Row(DbId(2), Bob, 0, MaxSlot, SESSION_DURATION)}

Init ==
  /\ store \in InitialStores
  /\ notifs = 0
  /\ sessions = <<>>
  /\ isSavingRef = FALSE
  /\ loads = <<NoFilter>>
  /\ playerName = <<>>
  /\ viewMode = "all"
  /\ isDragging = FALSE
  /\ dragStart = NoCell
  /\ dragEnd = NoCell
  /\ pendingChanges = EmptyChanges
  /\ saveCountdown = NoCountdown
  /\ isSaving = FALSE
  /\ showSaved = FALSE
  /\ saveTimerRef = NoTimer
  /\ countdownIntervalRef = NoTimer
  /\ savedTimerRef = NoTimer
  /\ timers = {}
  /\ procs = <<>>
  /\ now = 1
  /\ sinceSchedule = debounceDelay
  /\ restartedFrom = NoCountdown
  /\ mounted = TRUE
  /\ opsLeft = MaxOps

Gesture ==
  \/ \E d \in Days, h \in Slots : handleMouseDown(d, h)
  \/ \E d \in Days, h \in Slots : handleMouseEnter(d, h)
  \/ handleMouseUp
  \/ handleMouseLeave
  \/ clockAdvances

Identity ==
  \/ \E name \in Names : setCurrentUser(name)
  \/ \E mode \in {"all", "personal"} : setViewMode(mode)

\* what the owner of the scheduler hook calls on it
HookCalls ==
  \/ \E next \in QueuedEdits :
       /\ Len(next.toCreate) <= MaxQueued
       /\ Len(next.toDelete) <= MaxQueuedDeletes
       /\ setPendingChanges(next)
  \/ scheduleSave
  \/ saveNow
  \/ clearPendingChanges

\* what the runtime does to the scheduler
Runtime ==
  \/ unmount
  \/ saveTimerFires
  \/ countdownTick
  \/ savedTimerFires
  \/ Tick

Persistence ==
  \/ \E p \in 1..Len(procs), ok \in BOOLEAN : deleteResponse(p, ok)
  \/ \E p \in 1..Len(procs), ok \in BOOLEAN : insertResponse(p, ok)
  \/ \E p \in 1..Len(procs), ok \in BOOLEAN : reloadResponse(p, ok)

Remote ==
  \/ realtimeCallback
  \/ \E i \in 1..Len(loads), ok \in BOOLEAN : loadResponse(i, ok)
  \/ \E d \in Days, h \in Slots, p \in {Ann, Bob} : externalInsert(d, h, p)
  \/ \E r \in store : externalDelete(r)

Next == Gesture \/ Identity \/ HookCalls \/ Runtime \/ Persistence \/ Remote

Spec == Init /\ [][Next]_vars

\* the gestures over a canonical list loaded from any initial store
NextDrag ==
  \/ Gesture
  \/ \E name \in Names : setCurrentUser(name)
  \/ \E i \in 1..Len(loads), ok \in BOOLEAN : loadResponse(i, ok)

SpecDrag == Init /\ [][NextDrag]_vars

\* the scheduler hook with its store, at most MaxOps calls made on it
InitSave ==
  /\ Init
  /\ store = {Row(DbId(1), Ann, 0, 0, SESSION_DURATION)}

NextSave ==
  \/ HookCalls
  \/ Runtime
  \/ Persistence
  \/ realtimeCallback
  \/ \E i \in 1..Len(loads), ok \in BOOLEAN : loadResponse(i, ok)

SpecSave == InitSave /\ [][NextSave]_vars

\* the same over a store with two rows, so that a batch of two deletions
\* can be queued
InitBatch ==
  /\ Init
  /\ store = {Row(DbId(1), Ann, 0, 0, SESSION_DURATION),
              Row(DbId(2), Bob, 0, MaxSlot, SESSION_DURATION)}

SpecBatch == InitBatch /\ [][NextSave]_vars

\* the change feed and the loads it causes, with the view switching between
\* all players and one
NextFeed ==
  \/ Identity
  \/ Remote

SpecFeed == Init /\ [][NextFeed]_vars

\* one player dragging rectangles over a grid of several days and half
\* hours; a release is followed up while at most MaxRectQueued edits wait
handleMouseUpRect ==
  /\ Len(pendingChanges.toCreate) + Len(pendingChanges.toDelete) <= MaxRectQueued
  /\ handleMouseUpWithin(MaxRectCreate, MaxRectDelete)

NextRect ==
  \/ \E d \in RectDays, h \in RectSlots : handleMouseDown(d, h)
  \/ \E d \in RectDays, h \in RectSlots : handleMouseEnter(d, h)
  \/ handleMouseUpRect
  \/ clockAdvances
  \/ setCurrentUser(Ann)
  \/ \E i \in 1..Len(loads), ok \in BOOLEAN : loadResponse(i, ok)

SpecRect == Init /\ [][NextRect]_vars

\* one player clicking one cell of an empty calendar while the debounced
\* save runs against a store that accepts every request; a press is followed
\* while procedures in flight and stored rows together number at most
\* MaxClickLoad
InitClick ==
  /\ Init
  /\ store = {}

NextClick ==
  \/ playerName = <<>> /\ setCurrentUser(Ann)
  \/ Len(procs) + Cardinality(store) <= MaxClickLoad /\ handleMouseDown(0, 0)
  \/ handleMouseUp
  \/ saveTimerFires
  \/ countdownTick
  \/ savedTimerFires
  \/ Tick
  \/ \E p \in 1..Len(procs) : deleteResponse(p, TRUE)
  \/ \E p \in 1..Len(procs) : insertResponse(p, TRUE)
  \/ \E p \in 1..Len(procs) : reloadResponse(p, TRUE)
  \/ realtimeCallback
  \/ \E i \in 1..Len(loads) : loadResponse(i, TRUE)

SpecClick == InitClick /\ [][NextClick]_vars

\* edits saved at once, by a store that accepts every request, while one
\* player switches between the view of all players and the personal view
NextView ==
  \/ playerName = <<>> /\ setCurrentUser(Ann)
  \/ \E mode \in {"all", "personal"} : setViewMode(mode)
  \/ \E next \in QueuedEdits :
       /\ Len(next.toCreate) <= MaxQueued
       /\ Len(next.toDelete) <= MaxQueuedDeletes
       /\ setPendingChanges(next)
  \/ saveNow
  \/ \E p \in 1..Len(procs) : deleteResponse(p, TRUE)
  \/ \E p \in 1..Len(procs) : insertResponse(p, TRUE)
  \/ \E p \in 1..Len(procs) : reloadResponse(p, TRUE)
  \/ realtimeCallback
  \/ \E i \in 1..Len(loads) : loadResponse(i, TRUE)

SpecView == InitBatch /\ [][NextView]_vars

\* edits saved at once while another client adds rows to the store;
\* deletions and loads are answered, the batched insert may be refused
NextRemote ==
  \/ \E next \in QueuedEdits :
       /\ Len(next.toCreate) <= MaxQueued
       /\ Len(next.toDelete) <= MaxQueuedDeletes
       /\ setPendingChanges(next)
  \/ saveNow
  \/ \E p \in 1..Len(procs) : deleteResponse(p, TRUE)
  \/ \E p \in 1..Len(procs), ok \in BOOLEAN : insertResponse(p, ok)
  \/ \E p \in 1..Len(procs) : reloadResponse(p, TRUE)
  \/ realtimeCallback
  \/ \E i \in 1..Len(loads) : loadResponse(i, TRUE)
  \/ externalInsert(0, MaxSlot, Bob)

SpecRemote == InitSave /\ [][NextRemote]_vars

\* one player switching views while up to MaxViewLoads loads are awaited;
\* every load is answered, in any order
NextReload ==
  \/ playerName = <<>> /\ setCurrentUser(Ann)
  \/ \E mode \in {"all", "personal"} : setViewModeWithin(mode, MaxViewLoads)
  \/ \E i \in 1..Len(loads) : loadResponse(i, TRUE)

SpecReload == Init /\ [][NextReload]_vars

\* ----------------------------------------------------------------- claims
\* C1: at most one persistence procedure is in flight at any time; a timer
\* that fires or a saveNow() that arrives while one is running starts no
\* second one.
OneProcedureInFlight == Len(procs) <= 1

\* C2: from the start of a persistence procedure until it has finished, a
\* change notification never triggers a reload of the canonical list.
NotificationsIgnoredWhileSaving ==
  [][(Len(procs) > 0 /\ realtimeCallback) => loads' = loads]_vars

\* C3: no step of a persistence procedure up to and including a failed
\* create step changes toCreate or toDelete, so after the failure they are
\* what the procedure found when it started; and the failure issues no load
\* of the canonical list, neither the reload of the procedure nor another.
CreateFailureKeepsPending ==
  [][\A p \in 1..Len(procs) :
       /\ insertResponse(p, FALSE) =>
            /\ pendingChanges' = pendingChanges
            /\ loads' = loads
            /\ sessions' = sessions
            /\ \A k \in 1..Len(procs') :
                 procs'[k].pc = "reload" => procs'[k] \in Range(procs)
       /\ \A ok \in BOOLEAN :
            (deleteResponse(p, ok) /\ procs'[p].pc # "reload") =>
               pendingChanges' = pendingChanges]_vars

\* C3 witness: the deletion of a procedure went through, its create step
\* failed, and both lists still hold what the procedure started with.
CreateFailedAfterDelete ==
  /\ procs = <<>>
  /\ ~isSaving
  /\ store = {}
  /\ pendingChanges.toDelete = <<DbId(1)>>
  /\ Len(pendingChanges.toCreate) = 1
  /\ ~showSaved

\* C4: no id is in toDelete and in toCreate at the same time.
NoIdInBothLists ==
  \A i \in 1..Len(pendingChanges.toCreate) :
    ~Includes(pendingChanges.toDelete, pendingChanges.toCreate[i].id)

\* C5: toDelete holds durable ids only; deleting a provisional reservation
\* does not put its id there.
ToDeleteIsDurable ==
  \A i \in 1..Len(pendingChanges.toDelete) : ~IsTemp(pendingChanges.toDelete[i])

\* C6: the displayed view shows no reservation whose id is in toDelete,
\* shows every entry of toCreate, and is the canonical list without the
\* toDelete ids followed by toCreate.
OverlayHidesAndShows ==
  /\ \A i \in 1..Len(displayedEvents) :
       ~Includes(pendingChanges.toDelete, displayedEvents[i].id)
  /\ \A i \in 1..Len(pendingChanges.toCreate) :
       Includes(displayedEvents, pendingChanges.toCreate[i])
  /\ displayedEvents =
       SelectSeq(sessions, LAMBDA e : ~Includes(pendingChanges.toDelete, e.id))
         \o pendingChanges.toCreate

\* C7: clearPendingChanges() and the teardown leave no timeout of the
\* deferred write armed; a procedure starts only from saveNow() or from the
\* timeout the scheduler still refers to; none starts after the teardown.
NoWriteAfterCancel ==
  [][/\ (clearPendingChanges \/ unmount) => SaveTimers(timers') = {}
     /\ Len(procs') > Len(procs) =>
          \/ saveNow
          \/ \E t \in SaveTimers(timers) : t.id = saveTimerRef /\ t.remaining = 0
     /\ ~mounted => Len(procs') <= Len(procs)]_vars

\* C7 witness: torn down in the middle of a countdown with edits queued, and
\* nothing was written.
TornDownWhileCounting ==
  /\ ~mounted
  /\ saveCountdown \in 1..countdownSeconds
  /\ ~NoChanges(pendingChanges)
  /\ procs = <<>>
  /\ store = {Row(DbId(1), Ann, 0, 0, SESSION_DURATION)}

\* C8: scheduleSave() puts the countdown back to the full delay whatever it
\* showed, with one timeout of the full delay armed, and the deferred write
\* starts no earlier than the full delay after the latest scheduleSave().
DebounceRestarts ==
  [][/\ scheduleSave =>
          /\ saveCountdown' = countdownSeconds
          /\ \A t \in SaveTimers(timers') : t.remaining = debounceDelay
          /\ Cardinality(SaveTimers(timers')) = 1
     /\ (saveTimerFires /\ Len(procs') > Len(procs)) =>
          sinceSchedule = debounceDelay]_vars

\* C8 witness: scheduleSave() was issued while the countdown showed k, less
\* than the full delay, and the countdown is back at the full delay.
RestartedMidCountdown ==
  /\ restartedFrom \in 1..(countdownSeconds - 1)
  /\ saveCountdown = countdownSeconds
  /\ sinceSchedule = 0
  /\ SaveTimers(timers) # {}

NoDuplicateCell ==
  \A i, j \in 1..Len(displayedEvents) :
    (/\ displayedEvents[i].day = displayedEvents[j].day
     /\ displayedEvents[i].startHour = displayedEvents[j].startHour
     /\ displayedEvents[i].player_name = displayedEvents[j].player_name)
      => i = j

\* C11: when the pointer leaves the surface while a selection is active,
\* the selection is dropped, the pending changes stay as they were and no
\* debounce window is started.
LeaveDiscardsSelection ==
  [][(isDragging /\ dragStart # NoCell /\ dragEnd # NoCell /\ handleMouseLeave) =>
       /\ ~isDragging'
       /\ dragStart' = NoCell
       /\ dragEnd' = NoCell
       /\ pendingChanges' = pendingChanges
       /\ SaveTimers(timers') = SaveTimers(timers)
       /\ saveCountdown' = saveCountdown]_vars

FailureEndsIdle ==
  [][\A p \in 1..Len(procs) :
       (/\ insertResponse(p, FALSE)
        /\ Len(procs) = 1
        /\ mounted
        /\ isSaving
        /\ saveCountdown = NoCountdown
        /\ timers = {}) =>
          /\ ~isSaving'
          /\ ~showSaved'
          /\ saveCountdown' = NoCountdown
          /\ timers' = {}]_vars

\* C16: while the component is mounted, a Saved indicator that is showing
\* has a timeout armed that will take it away.
SavedHasItsTimeout ==
  (mounted /\ showSaved) => \E t \in timers : t.kind = "saved"

\* C17: clearPendingChanges(), called with edits pending, empties both lists
\* and leaves no countdown, no Saved indicator and no timer, and starts
\* nothing against the store.
ClearLeavesIdle ==
  [][(clearPendingChanges /\ ~NoChanges(pendingChanges)) =>
       /\ NoChanges(pendingChanges')
       /\ saveCountdown' = NoCountdown
       /\ ~showSaved'
       /\ timers' = {}
       /\ procs' = procs
       /\ store' = store
       /\ loads' = loads]_vars

\* C18: saveNow() with both lists empty changes nothing: no procedure
\* starts, and flags, countdown and armed timers are as before.
EmptySaveNowIsNoOp ==
  [][(saveNow /\ NoChanges(pendingChanges)) =>
       /\ procs' = procs
       /\ store' = store
       /\ isSaving' = isSaving
       /\ showSaved' = showSaved
       /\ saveCountdown' = saveCountdown
       /\ timers' = timers]_vars

\* C19: scheduleSave() while the Saved indicator shows takes the indicator
\* away, starts the countdown at the full delay and leaves no timeout of the
\* indicator armed.
ScheduleDiscardsSaved ==
  [][(scheduleSave /\ showSaved) =>
       /\ ~showSaved'
       /\ saveCountdown' = countdownSeconds
       /\ \A t \in timers' : t.kind # "saved"]_vars

\* C20: the countdown starts at the full delay, loses exactly one per
\* second that has passed since scheduleSave(), never shows less than 0, and
\* once at 0 stays there until the save timeout starts the write (saving, no
\* countdown) or one of the hook's functions is called.
CountdownBySeconds ==
  [][/\ saveCountdown \in {NoCountdown} \cup (0..countdownSeconds)
     /\ \A t \in timers :
          t.kind = "countdown" =>
            saveCountdown * IntervalMs =
              debounceDelay - sinceSchedule + (IntervalMs - t.remaining)
     /\ scheduleSave => saveCountdown' = countdownSeconds
     /\ countdownTick =>
          (saveCountdown' = saveCountdown - 1 /\ saveCountdown' >= 0)
     /\ (saveCountdown = 0 /\ saveCountdown' # 0) =>
          \/ saveTimerFires /\ isSaving' /\ saveCountdown' = NoCountdown
          \/ scheduleSave
          \/ saveNow
          \/ clearPendingChanges]_vars

CountedDownToZero ==
  /\ saveCountdown = 0
  /\ sinceSchedule = debounceDelay
  /\ restartedFrom = NoCountdown
  /\ ~NoChanges(pendingChanges)
  /\ ~isSaving
  /\ Due("save") # {}

\* C21: the scheduler is in one state at a time: no countdown while a write
\* is in flight, and no Saved indicator together with a countdown or a write
\* in flight.
OneSchedulerState ==
  /\ ~(isSaving /\ saveCountdown # NoCountdown)
  /\ ~(showSaved /\ saveCountdown # NoCountdown)
  /\ ~(showSaved /\ isSaving)

\* C22: a change notification delivered while no save is running starts
\* exactly one load, with the filter of the current view.
NotificationReloadsActiveView ==
  [][(realtimeCallback /\ ~isSavingRef) =>
       loads' = Append(loads, ActiveFilter)]_vars

\* C23: the canonical list changes only when a load or the reload of a save
\* is answered with rows.
CanonicalOnlyReplaced ==
  [][sessions' # sessions =>
       \/ \E i \in 1..Len(loads) : loadResponse(i, TRUE)
       \/ \E p \in 1..Len(procs) : reloadResponse(p, TRUE)]_vars

\* C24: a press made while the trimmed name is shorter than the minimum
\* changes nothing: the drag state, the pending changes and the scheduler
\* are as before, and a selection that was inactive stays inactive with no
\* anchor and no cursor.
InvalidPressRejected ==
  [][/\ ((\E d \in Days, h \in Slots : handleMouseDown(d, h))
           /\ Len(Trim(playerName)) < MinNameLength)
          => UNCHANGED <<dragVars, pendingChanges, saveVars>>
     /\ (~isDragging /\ Len(Trim(playerName)) < MinNameLength)
          => (~isDragging' /\ dragStart' = NoCell /\ dragEnd' = NoCell)]_vars

PressOfferedToShortName ==
  /\ mounted
  /\ Len(playerName) >= MinNameLength
  /\ Len(Trim(playerName)) < MinNameLength
  /\ ~isDragging /\ dragStart = NoCell /\ dragEnd = NoCell
  /\ ~NoChanges(pendingChanges)
  /\ SaveTimers(timers) # {}

\* C25: while no selection is active, entering a cell and releasing change
\* nothing: no cursor is set, the pending changes stay as they are and the
\* scheduler is not restarted.
InactiveEnterReleaseIdle ==
  [][(~isDragging /\ (handleMouseUp \/ \E d \in Days, h \in Slots :
                                          handleMouseEnter(d, h)))
       => UNCHANGED <<dragVars, pendingChanges, saveVars>>]_vars

InactiveWithCountdown ==
  /\ mounted
  /\ ~isDragging /\ dragStart = NoCell /\ dragEnd = NoCell
  /\ ValidPlayer
  /\ Len(pendingChanges.toCreate) > 0
  /\ saveCountdown = countdownSeconds
  /\ restartedFrom = NoCountdown

\* C26: a release that starts on a cell without a reservation of the
\* player, over a rectangle that shows none of the player's reservations,
\* appends exactly one reservation per cell of the inclusive rectangle (one
\* when anchor and cursor are the same cell), each of the fixed duration
\* and owned by the player, and queues no deletion.
CreateFillsRectangle ==
  [][LET Between(x, a, b) == (a <= x /\ x <= b) \/ (b <= x /\ x <= a)
         Inside(d, h) == /\ Between(d, dragStart[1], dragEnd[1])
                         /\ Between(h, dragStart[2], dragEnd[2])
         Abs(x) == IF x < 0 THEN 0 - x ELSE x
         before == Len(pendingChanges.toCreate)
         after == pendingChanges'.toCreate
         added == SubSeq(after, before + 1, Len(after))
     IN  (/\ handleMouseUpRect
          /\ isDragging /\ dragStart # NoCell /\ dragEnd # NoCell
          /\ \A i \in 1..Len(displayedEvents) :
               ~(/\ displayedEvents[i].player_name = playerName
                 /\ Inside(displayedEvents[i].day, displayedEvents[i].startHour)))
         => /\ Len(after) >= before
            /\ SubSeq(after, 1, before) = pendingChanges.toCreate
            /\ Len(added) = (Abs(dragEnd[1] - dragStart[1]) + 1)
                              * (Abs(dragEnd[2] - dragStart[2]) + 1)
            /\ (dragStart = dragEnd => Len(added) = 1)
            /\ \A d \in RectDays, h \in RectSlots :
                 Cardinality({i \in 1..Len(added) :
                                added[i].day = d /\ added[i].startHour = h})
                   = IF Inside(d, h) THEN 1 ELSE 0
            /\ \A i \in 1..Len(added) :
                 /\ added[i].duration = SESSION_DURATION
                 /\ added[i].player_name = playerName
            /\ pendingChanges'.toDelete = pendingChanges.toDelete]_vars

WholeGridCreated ==
  /\ ~isDragging
  /\ Len(pendingChanges.toCreate) = (MaxRectDay + 1) * (MaxRectSlot + 1)
  /\ Len(pendingChanges.toDelete) = 0
  /\ \A i \in 1..Len(pendingChanges.toCreate) :
       pendingChanges.toCreate[i].player_name = playerName

\* C27: the rectangle of a drag does not depend on its direction: the
\* cells resolved from anchor and cursor are those resolved from cursor and
\* anchor, and what a release queues (creations in create mode, the player's
\* displayed reservations in delete mode) is what the swapped rectangle
\* selects.
RectangleOrderIndependent ==
  [][LET before == Len(pendingChanges.toCreate)
         after == pendingChanges'.toCreate
         added == SubSeq(after, before + 1, Len(after))
         swapped == RectCells(dragEnd, dragStart)
         own == {displayedEvents[i] : i \in
                   {j \in 1..Len(displayedEvents) :
                      displayedEvents[j].player_name = playerName}}
         deleteMode == \E e \in own : <<e.day, e.startHour>> = dragStart
         queued == SubSeq(pendingChanges'.toDelete,
                          Len(pendingChanges.toDelete) + 1,
                          Len(pendingChanges'.toDelete))
     IN  (/\ handleMouseUpRect
          /\ isDragging /\ dragStart # NoCell /\ dragEnd # NoCell
          /\ dragStart # dragEnd)
         => /\ RectCells(dragStart, dragEnd) = swapped
            /\ ~deleteMode =>
                 {<<e.day, e.startHour>> : e \in Range(added)} = swapped
            /\ deleteMode =>
                 Range(queued) =
                   {e.id : e \in {x \in own : <<x.day, x.startHour>> \in swapped}}]_vars

BackwardDragReleased ==
  /\ ~isDragging
  /\ \E i \in 1..Len(sessions) :
       /\ sessions[i].player_name = playerName
       /\ sessions[i].day = 0 /\ sessions[i].startHour = 0
  /\ Len(pendingChanges.toDelete) = 0
  /\ {<<e.day, e.startHour>> : e \in Range(pendingChanges.toCreate)}
       = RectDays \X RectSlots

\* C28: a release is in delete mode exactly when the anchor cell shows a
\* reservation of the player; in delete mode every displayed reservation of
\* the player inside the rectangle is queued for deletion and is no longer
\* displayed, and in create mode nothing is queued for deletion.
DeleteModeClearsRectangle ==
  [][LET own == {displayedEvents[i] : i \in
                   {j \in 1..Len(displayedEvents) :
                      displayedEvents[j].player_name = playerName}}
         deleteMode == \E e \in own : <<e.day, e.startHour>> = dragStart
         inRect == {e \in own :
                      <<e.day, e.startHour>> \in RectCells(dragStart, dragEnd)}
     IN  (/\ handleMouseUp
          /\ isDragging /\ dragStart # NoCell /\ dragEnd # NoCell)
         => /\ deleteMode =>
                 /\ pendingChanges'.toDelete # pendingChanges.toDelete
                 /\ \A e \in inRect :
                      /\ Includes(pendingChanges'.toDelete, e.id)
                      /\ e \notin Range(displayedEvents')
            /\ ~deleteMode =>
                 /\ pendingChanges'.toDelete = pendingChanges.toDelete
                 /\ Len(pendingChanges'.toCreate) > Len(pendingChanges.toCreate)]_vars

\* C29: every release of an active selection restarts the debounce window
\* once (the countdown is back at the full delay, one countdown interval and
\* one save timeout are armed, and the restart found the scheduler as it was
\* before the release) and leaves the selection inactive with no anchor and
\* no cursor.
ReleaseSchedulesOnce ==
  [][(/\ isDragging /\ dragStart # NoCell /\ dragEnd # NoCell
      /\ pendingChanges' # pendingChanges)
       => /\ saveCountdown' = countdownSeconds
          /\ ~showSaved'
          /\ restartedFrom' = saveCountdown
          /\ sinceSchedule' = 0
          /\ Cardinality({t \in timers' : t.kind = "countdown"}) = 1
          /\ Cardinality(SaveTimers(timers')) = 1
          /\ \A t \in SaveTimers(timers') :
               t.id = saveTimerRef' /\ t.remaining = debounceDelay
          /\ ~isDragging' /\ dragStart' = NoCell /\ dragEnd' = NoCell]_vars

SecondReleaseRescheduled ==
  /\ ~isDragging /\ dragStart = NoCell /\ dragEnd = NoCell
  /\ Len(pendingChanges.toCreate) = 2
  /\ restartedFrom = countdownSeconds
  /\ saveCountdown = countdownSeconds

\* C30: the provisional ids waiting in toCreate are pairwise distinct.
ProvisionalIdsDistinct ==
  \A i, j \in 1..Len(pendingChanges.toCreate) :
    i # j => pendingChanges.toCreate[i].id # pendingChanges.toCreate[j].id

\* C32: an edit that no procedure in flight carries in its snapshot is
\* still pending after any step of a procedure in flight.
UnsentEditsSurvive ==
  [][LET sentCreate == UNION {{e.id : e \in Range(procs[q].snap.toCreate)} :
                                q \in 1..Len(procs)}
         sentDelete == UNION {Range(procs[q].snap.toDelete) :
                                q \in 1..Len(procs)}
     IN  (Len(procs') <= Len(procs) /\ procs' # procs)
         => /\ \A e \in Range(pendingChanges.toCreate) :
                 e.id \notin sentCreate => e \in Range(pendingChanges'.toCreate)
            /\ \A id \in Range(pendingChanges.toDelete) :
                 id \notin sentDelete => id \in Range(pendingChanges'.toDelete)]_vars

\* C33: the batched insert of a procedure is not accepted while another
\* procedure that took the same snapshot has already had its insert
\* accepted.
EntryInsertedOnce ==
  [][\A p \in 1..Len(procs) :
       insertResponse(p, TRUE) =>
         \A q \in 1..Len(procs) :
           (q # p /\ procs[q].pc = "reload" /\ Len(procs[q].snap.toCreate) > 0)
             => procs[q].snap # procs[p].snap]_vars

\* C31: clicks on one cell toggle the player's reservation there: a click
\* shows one where none was shown and none where one was shown, no other
\* step changes how many are shown, and once everything has been saved and
\* reloaded the store holds as many as are shown.
ClicksToggle ==
  [][LET shownIn(events) ==
           Cardinality({i \in 1..Len(events) :
                          /\ events[i].player_name = Ann
                          /\ events[i].day = 0 /\ events[i].startHour = 0})
         shown == shownIn(displayedEvents)
         shownNext == shownIn(displayedEvents')
         stored == Cardinality({r \in store : r.player_name = Ann
                                              /\ r.day = 0 /\ r.start_hour = 0})
         click == /\ handleMouseUp
                  /\ isDragging /\ dragStart # NoCell /\ dragEnd # NoCell
         quiet == /\ NoChanges(pendingChanges) /\ procs = <<>>
                  /\ loads = <<>> /\ notifs = 0
     IN  /\ click => shownNext = (IF shown = 0 THEN 1 ELSE 0)
         /\ ~click => shownNext = shown
         /\ quiet => stored = shown]_vars

\* C34: the countdown does not stick: when the debounce timeout fires at
\* CountingDown(0) the scheduler leaves CountingDown, to Saving or to Idle.
CountdownEnds ==
  [][(saveTimerFires /\ saveCountdown = 0) => saveCountdown' = NoCountdown]_vars

\* C35: a failed attempt is all-or-nothing: when the create step of the only
\* procedure in flight fails, every durable row its batch was to delete is
\* still in the store.
FailedAttemptLeavesStore ==
  [][(Len(procs) = 1 /\ insertResponse(1, FALSE))
       => \A id \in Range(procs[1].snap.toDelete) :
            ~IsTemp(id) => \E r \in store' : r.id = id]_vars

\* C36: when the reload that ends a successful persistence is answered
\* while all players are viewed, no other load is awaited and no change
\* notification is outstanding, the displayed view is the store's content
\* under the active filter, which is the whole store, every reservation once.
ViewEqualsStoreAfterSave ==
  [][\A p \in 1..Len(procs) :
       (Len(procs) = 1 /\ viewMode = "all" /\ loads = <<>> /\ notifs = 0
          /\ reloadResponse(p, TRUE))
         => /\ displayedEvents' = Select(ActiveFilter')
            /\ \A i, j \in 1..Len(displayedEvents') :
                 displayedEvents'[i].id = displayedEvents'[j].id => i = j]_vars

\* C37: no external change is missed for good: once no procedure and no
\* load is in flight and no notification is outstanding, the canonical list
\* holds the rows of the store.
NoChangeMissed ==
  (procs = <<>> /\ loads = <<>> /\ notifs = 0)
    => {sessions[i].id : i \in 1..Len(sessions)} = {r.id : r \in store}

\* C38: of overlapping reloads the most recently requested one decides the
\* canonical list. Every change of the view requests a reload with the filter
\* it makes active and the store does not change, so once no load is awaited
\* the canonical list is the store's content under the active filter.
LatestReloadWins ==
  loads = <<>> => sessions = Select(ActiveFilter)

====
